---- MODULE Spec2Model ----
(***************************************************************************)
(* pest-report: the submission intake (app.py) and the weekly report job   *)
(* (report_generator.py), which share one JSON file, data/submissions.json *)
(*                                                                         *)
(* Time is counted in whole days.  A JSON value that the code inspects for *)
(* its type is a record with one field: [str |-> s] for a JSON string and  *)
(* [num |-> n] for a JSON number.  A JSON object is a TLA+ record whose    *)
(* DOMAIN is the set of keys present; an array element that is not an      *)
(* object is the record [nonobject |-> ...].                               *)
(***************************************************************************)
EXTENDS Integers, Sequences, FiniteSets, TLC

VARIABLES
    file,      \* content of data/submissions.json
    now,       \* the wall clock, datetime.now(), in days
    intake,    \* the locals of the request being served by submit_report
    job,       \* the locals of the report_generator.py __main__ run
    submits,   \* number of requests received so far
    saved,     \* the records for which save_submission returned True, in order
    raced      \* a save_submission rewrite landed between compaction's re-read and overwrite

vars == <<file, now, intake, job, submits, saved, raced>>

(***************************** bounds **************************************)
MaxSubmits == 2
MaxRuns == 2
MaxLen == 3
MaxTicks == 1
Now0 == 10

(************************ JSON values and time *****************************)
Window == 7

JStr(s) == [str |-> s]

JNum(n) == [num |-> n]

IsStr(v) == "str" \in DOMAIN v

IsObject(e) == "nonobject" \notin DOMAIN e

Times == 0 .. (Now0 + MaxTicks + 1)

\* datetime.isoformat(): the text of an instant
Isoformat(t) == "T" \o ToString(t)

\* datetime.strftime(): the display text of an instant
Strftime(t) == "D" \o ToString(t)

\* datetime.fromisoformat(v): TypeError for a non-string, ValueError for a
\* string that is not the ISO text of an instant, else the instant
Fromisoformat(v) ==
    IF ~IsStr(v) THEN [exc |-> "TypeError", t |-> 0]
    ELSE IF \E t \in Times : Isoformat(t) = v.str
         THEN [exc |-> "none", t |-> CHOOSE t \in Times : Isoformat(t) = v.str]
         ELSE [exc |-> "ValueError", t |-> 0]

\* dict.get(key, default)
Get(d, key, default) == IF key \in DOMAIN d THEN d[key] ELSE default

(***************************** the file ************************************)
Absent == [kind |-> "absent", recs |-> <<>>]

\* content that json.load rejects: a zero-length file, or a document with trailing bytes
Invalid == [kind |-> "invalid", recs |-> <<>>]

JsonList(recs) == [kind |-> "list", recs |-> recs]

\* valid JSON that is no array: a number, and the empty object {}
JsonNum == [kind |-> "num", recs |-> <<>>]

JsonEmptyObj == [kind |-> "emptyobj", recs |-> <<>>]

\* open(SUBMISSIONS_FILE, 'w'): creates or truncates to zero length
OpenW == Invalid

\* Closing a file opened with 'w' flushes the buffered document at offset 0 without
\* truncating again: over a longer document written meanwhile it leaves trailing
\* bytes.  Records are taken to serialize to equal length.
CloseW(cur, recs) ==
    IF cur.kind = "list" /\ Len(cur.recs) > Len(recs) THEN Invalid ELSE JsonList(recs)

(************************** send_email *************************************)
\* send_email: False without credentials, False when the SMTP exchange raises
send_email(creds, smtpOk) == creds /\ smtpOk

(************************** submit_report **********************************)
NoRecord == [none |-> "none"]

MsgNoJson == "No JSON data found in request.form"

MsgBadJson == "Invalid JSON data provided"

MsgSaveError == "Error saving submission"

MsgOk == "Report submitted and email sent successfully!"

MsgEmailFailed == "Report submitted, but email failed to send. Check backend logs."

NoPests == <<>>

\* the parsed jsonData objects a client may post
FormAl ==
    [yourName |-> "Al", businessArea |-> "Kitchen", pests |-> <<JStr("ants")>>,
     reportDate |-> "2024-01-01", additionalNotes |-> "seen near sink"]

FormBo == [yourName |-> "Bo", pests |-> <<JStr("ants"), JStr("flies")>>, otherPest |-> "N/A"]

FormCy == [yourName |-> "Cy", otherPest |-> "wasps", additionalNotes |-> ""]

\* the requests a client may post: the jsonData object, and the image part ("none",
\* one Cloudinary accepts, one it rejects)
Requests ==
    { [data |-> FormAl, image |-> "uploads"],
      [data |-> FormBo, image |-> "fails"] }

\* lines 121-135: the image reference
ImageUrl(image) ==
    CASE image = "uploads" -> "http://x/img.jpg"
      [] image = "fails" -> "Image upload failed"
      [] OTHER -> "No image uploaded"

\* lines 113-118, 138-147: the submission record
SubmissionRecord(data, image, t) ==
    [timestamp |-> JStr(Isoformat(t)),
     yourName |-> Get(data, "yourName", "N/A"),
     businessArea |-> Get(data, "businessArea", "N/A"),
     pests |-> Get(data, "pests", NoPests),
     otherPest |-> Get(data, "otherPest", ""),
     reportDate |-> Get(data, "reportDate", "N/A"),
     additionalNotes |-> Get(data, "additionalNotes", "N/A"),
     image_url |-> ImageUrl(image)]

IntakeIdle(response, status) ==
    [pc |-> "idle", record |-> NoRecord, file_data |-> <<>>,
     response |-> response, status |-> status, emailed |-> FALSE]

\* lines 103-105: the request carries no jsonData field
SubmitNoJson ==
    /\ intake.pc = "idle"
    /\ submits < MaxSubmits
    /\ submits' = submits + 1
    /\ intake' = IntakeIdle(MsgNoJson, 400)
    /\ UNCHANGED <<file, now, job, saved, raced>>

\* lines 107-110: jsonData is not JSON
SubmitBadJson ==
    /\ intake.pc = "idle"
    /\ submits < MaxSubmits
    /\ submits' = submits + 1
    /\ intake' = IntakeIdle(MsgBadJson, 400)
    /\ UNCHANGED <<file, now, job, saved, raced>>

\* lines 112-150: the record is built and save_submission is entered
SubmitReport ==
    /\ intake.pc = "idle"
    /\ submits < MaxSubmits
    /\ submits' = submits + 1
    /\ \E req \in Requests :
          intake' = [pc |-> "save", record |-> SubmissionRecord(req.data, req.image, now),
                     file_data |-> <<>>, response |-> "", status |-> 0, emailed |-> FALSE]
    /\ UNCHANGED <<file, now, job, saved, raced>>

\* save_submission lines 77-78: the existence test; an absent file is created empty
SaveCheck ==
    /\ intake.pc = "save"
    /\ IF file.kind = "absent"
       THEN /\ file' = OpenW
            /\ intake' = [intake EXCEPT !.pc = "creating"]
       ELSE /\ file' = file
            /\ intake' = [intake EXCEPT !.pc = "read"]
    /\ UNCHANGED <<now, job, submits, saved, raced>>

\* save_submission line 79: the empty list is written when the new file is closed
SaveCreateClose ==
    /\ intake.pc = "creating"
    /\ file' = CloseW(file, <<>>)
    /\ intake' = [intake EXCEPT !.pc = "read"]
    /\ UNCHANGED <<now, job, submits, saved, raced>>

SaveAppendFirst(file_data, submission_record) == <<submission_record>> \o file_data

\* save_submission line 83
SaveAppend(file_data, submission_record) == Append(file_data, submission_record)

\* save_submission lines 81-83: json.load and append; anything json.load rejects, and
\* any value without append, ends in the except branch (lines 89-91) and, in
\* submit_report, in the 500 response of line 151
SaveRead ==
    /\ intake.pc = "read"
    /\ IF file.kind = "list"
       THEN intake' = [intake EXCEPT !.pc = "write",
                                     !.file_data = SaveAppend(file.recs, intake.record)]
       ELSE intake' = IntakeIdle(MsgSaveError, 500)
    /\ UNCHANGED <<file, now, job, submits, saved, raced>>

\* save_submission lines 84-88: seek(0), dump, truncate; returns True
SaveWrite ==
    /\ intake.pc = "write"
    /\ file' = JsonList(intake.file_data)
    /\ saved' = Append(saved, intake.record)
    /\ raced' = (raced \/ job.pc \in {"compact_open", "compact_close"})
    /\ intake' = [intake EXCEPT !.pc = "email"]
    /\ UNCHANGED <<now, job, submits>>

\* lines 167-170
SubmitResponse(sent) == IF sent THEN MsgOk ELSE MsgEmailFailed

SubmitStatus(sent) == IF sent THEN 200 ELSE 500

\* lines 153-170: the notification, and the response that depends on it
SubmitSendEmail ==
    /\ intake.pc = "email"
    /\ \E creds \in BOOLEAN, smtpOk \in BOOLEAN :
          intake' = [IntakeIdle(SubmitResponse(send_email(creds, smtpOk)),
                                SubmitStatus(send_email(creds, smtpOk)))
                        EXCEPT !.emailed = TRUE]
    /\ UNCHANGED <<file, now, job, submits, saved, raced>>

Tick ==
    /\ now < Now0 + MaxTicks
    /\ now' = now + 1
    /\ UNCHANGED <<file, intake, job, submits, saved, raced>>

IntakeNext ==
    \/ SubmitNoJson
    \/ SubmitBadJson
    \/ SubmitReport
    \/ SaveCheck
    \/ SaveCreateClose
    \/ SaveRead
    \/ SaveWrite
    \/ SubmitSendEmail

(*********************** generate_weekly_report ****************************)
MsgNoData == "No submissions data available for the weekly report."

MsgReadError == "Error reading submissions data. Report cannot be generated."

MsgNoNew == "No new pest reports in the last week."

Message(text) == [text |-> text, blocks |-> <<>>]

InWindowStrict(submission_time, seven_days_ago) == submission_time > seven_days_ago

\* line 78 (and line 131): the window test
InWindow(submission_time, seven_days_ago) == submission_time >= seven_days_ago

\* lines 74-83, one pass of the loop body: "raise" for an exception that no except
\* clause of the loop catches, "keep" for an append, "skip" otherwise
RecentStep(s, seven_days_ago) ==
    IF ~IsObject(s)
    THEN IF IsStr(s.nonobject) THEN "skip" ELSE "raise"
    ELSE IF "timestamp" \notin DOMAIN s THEN "skip"
    ELSE LET parsed == Fromisoformat(s.timestamp)
         IN  CASE parsed.exc = "TypeError" -> "raise"
               [] parsed.exc = "ValueError" -> "skip"
               [] OTHER -> IF InWindow(parsed.t, seven_days_ago) THEN "keep" ELSE "skip"

RECURSIVE RecentLoop(_, _, _)
\* lines 71-83: recent_submissions, from element i on
RecentLoop(submissions, seven_days_ago, i) ==
    IF i > Len(submissions) THEN [raised |-> FALSE, recent |-> <<>>]
    ELSE LET step == RecentStep(submissions[i], seven_days_ago)
             rest == RecentLoop(submissions, seven_days_ago, i + 1)
         IN  CASE step = "raise" -> [raised |-> TRUE, recent |-> <<>>]
               [] step = "keep" -> [rest EXCEPT !.recent = <<submissions[i]>> \o rest.recent]
               [] OTHER -> rest

AllStr(items) == \A k \in 1 .. Len(items) : IsStr(items[k])

RECURSIVE Join(_)
\* ', '.join(items), for items that are all strings
Join(items) ==
    IF Len(items) = 0 THEN ""
    ELSE IF Len(items) = 1 THEN items[1].str
    ELSE items[1].str \o ", " \o Join(Tail(items))

Line(label, text) == [label |-> label, text |-> text]

OtherPestHidesPlaceholder(sub) == Get(sub, "otherPest", "") \notin {"", "N/A"}

\* line 99: the truth value of sub.get('otherPest')
OtherPestShown(sub) == Get(sub, "otherPest", "") # ""

\* line 102
ImageLine(sub) == Line("Image File", Get(sub, "imageFileName", "No file uploaded"))

BlockNumberZeroBased(i, sub) == i

\* line 95: the number printed for the i-th (0-based) recent submission
BlockNumber(i, sub) == i + 1

\* lines 95-104: the block of recent submission number i (0-based)
Block(i, sub) ==
    [number |-> BlockNumber(i, sub),
     lines |->
        <<Line("Name", Get(sub, "yourName", "N/A")),
          Line("Business Area", Get(sub, "businessArea", "N/A")),
          Line("Pest(s)", Join(Get(sub, "pests", NoPests)))>>
        \o (IF OtherPestShown(sub) THEN <<Line("Other Pest", sub.otherPest)>> ELSE <<>>)
        \o <<Line("Date of Incident", Get(sub, "reportDate", "N/A")),
             ImageLine(sub),
             Line("Notes", Get(sub, "additionalNotes", "N/A")),
             Line("Submitted On", Strftime(Fromisoformat(sub.timestamp).t))>>]

\* line 98 raises TypeError when an entry of pests is no string
BlockRaises(sub) == ~AllStr(Get(sub, "pests", NoPests))

Header(seven_days_ago, t) ==
    "Weekly Pest Report - Last 7 Days (" \o Strftime(seven_days_ago) \o " to "
        \o Strftime(t) \o ")"

Returned(report, submissions, recent, seven_days_ago) ==
    [raised |-> FALSE, report_content |-> report, submissions |-> submissions,
     recent_submissions |-> recent, seven_days_ago |-> seven_days_ago]

Raised(submissions, seven_days_ago) ==
    [raised |-> TRUE, report_content |-> Message(""), submissions |-> submissions,
     recent_submissions |-> <<>>, seven_days_ago |-> seven_days_ago]

EmptyStoreIsNoData(f) == f.kind = "absent" \/ f = JsonList(<<>>)

\* lines 55-57: the "no data" message
NoDataCase(f) == f.kind = "absent"

\* generate_weekly_report, on file content f at instant t
generate_weekly_report(f, t) ==
    LET seven_days_ago == t - Window
        loop == RecentLoop(f.recs, seven_days_ago, 1)
        recent == loop.recent
    IN  IF NoDataCase(f) THEN Returned(Message(MsgNoData), f, <<>>, seven_days_ago)
        ELSE IF f.kind = "invalid"
             THEN Returned(Message(MsgReadError), f, <<>>, seven_days_ago)
        ELSE IF f.kind = "num" THEN Raised(f, seven_days_ago)
        ELSE IF loop.raised THEN Raised(f, seven_days_ago)
        ELSE IF Len(recent) = 0 THEN Returned(Message(MsgNoNew), f, <<>>, seven_days_ago)
        ELSE IF \E k \in 1 .. Len(recent) : BlockRaises(recent[k])
             THEN Raised(f, seven_days_ago)
        ELSE Returned([text |-> Header(seven_days_ago, t),
                       blocks |-> [k \in 1 .. Len(recent) |-> Block(k - 1, recent[k])]],
                      f, recent, seven_days_ago)

(************************ the report job (__main__) ************************)
NoRun == [compaction |-> "none", cutoff |-> 0, read |-> Absent, kept |-> <<>>]

JobStart(run, prev) ==
    [pc |-> "generate", run |-> run, report_content |-> Message(""),
     submissions |-> Absent, recent_submissions |-> <<>>, seven_days_ago |-> 0,
     sent |-> "none", mail_body |-> Message(""),
     all_submissions |-> Absent, submissions_to_keep |-> <<>>, cutoff |-> 0,
     compaction |-> "none", prev |-> prev]

\* line 110: an exception of generate_weekly_report ends the process there
JobGenerate ==
    /\ job.pc = "generate"
    /\ LET r == generate_weekly_report(file, now)
       IN  job' = [job EXCEPT !.pc = IF r.raised THEN "crashed" ELSE "email",
                              !.report_content = r.report_content,
                              !.submissions = r.submissions,
                              !.recent_submissions = r.recent_submissions,
                              !.seven_days_ago = r.seven_days_ago]
    /\ UNCHANGED <<file, now, intake, submits, saved, raced>>

AfterEmailOnlyIfSent(sent) == IF sent THEN "compact" ELSE "done"

\* lines 113-120: both branches of the if fall through to the clearing block
AfterEmail(sent) == "compact"

\* lines 111-116
JobSendEmail ==
    /\ job.pc = "email"
    /\ \E creds \in BOOLEAN, smtpOk \in BOOLEAN :
          job' = [job EXCEPT !.pc = AfterEmail(send_email(creds, smtpOk)),
                             !.sent = IF send_email(creds, smtpOk) THEN "ok" ELSE "failed",
                             !.mail_body = job.report_content]
    /\ UNCHANGED <<file, now, intake, submits, saved, raced>>

\* line 131, for one element: "raise", "keep" or "drop"
KeepStep(s, cutoff) ==
    IF ~IsObject(s)
    THEN IF IsStr(s.nonobject) THEN "drop" ELSE "raise"
    ELSE IF "timestamp" \notin DOMAIN s THEN "drop"
    ELSE LET parsed == Fromisoformat(s.timestamp)
         IN  IF parsed.exc # "none" THEN "raise"
             ELSE IF InWindow(parsed.t, cutoff) THEN "keep" ELSE "drop"

RECURSIVE KeepLoop(_, _, _)
\* lines 129-132: submissions_to_keep, from element i on
KeepLoop(all_submissions, cutoff, i) ==
    IF i > Len(all_submissions) THEN [raised |-> FALSE, keep |-> <<>>]
    ELSE LET step == KeepStep(all_submissions[i], cutoff)
             rest == KeepLoop(all_submissions, cutoff, i + 1)
         IN  CASE step = "raise" -> [raised |-> TRUE, keep |-> <<>>]
               [] step = "keep" -> [rest EXCEPT !.keep = <<all_submissions[i]>> \o rest.keep]
               [] OTHER -> rest

ReuseLoaded(current, loaded) == loaded

\* lines 121-125: the clearing block reads the file again, not the list the report used
RereadStore(current, loaded) == current

JobDone(outcome) == [job EXCEPT !.pc = "done", !.compaction = outcome]

\* lines 120-132 and 137-140: the re-read and the filter; every exception is caught
\* by line 139 before the file is opened for writing
JobCompactRead ==
    /\ job.pc = "compact"
    /\ LET cutoff == now - Window
           f == RereadStore(file, job.submissions)
           loop == KeepLoop(f.recs, cutoff, 1)
       IN  IF f.kind = "absent" THEN job' = JobDone("notfound")
           ELSE IF f.kind \in {"invalid", "num"}
                THEN job' = [JobDone("aborted") EXCEPT !.all_submissions = f]
           ELSE IF loop.raised
                THEN job' = [JobDone("aborted") EXCEPT !.all_submissions = f,
                                                       !.cutoff = cutoff]
           ELSE job' = [job EXCEPT !.pc = "compact_open", !.all_submissions = f,
                                   !.cutoff = cutoff, !.submissions_to_keep = loop.keep]
    /\ UNCHANGED <<file, now, intake, submits, saved, raced>>

\* line 134: open(SUBMISSIONS_FILE, 'w')
JobCompactOpen ==
    /\ job.pc = "compact_open"
    /\ file' = OpenW
    /\ job' = [job EXCEPT !.pc = "compact_close"]
    /\ UNCHANGED <<now, intake, submits, saved, raced>>

\* lines 135-136: the dump reaches the file when it is closed
JobCompactClose ==
    /\ job.pc = "compact_close"
    /\ file' = CloseW(file, job.submissions_to_keep)
    /\ job' = JobDone("rewritten")
    /\ UNCHANGED <<now, intake, submits, saved, raced>>

\* the external trigger starts the job again
JobRestart ==
    /\ job.pc \in {"done", "crashed"}
    /\ job.run < MaxRuns
    /\ job' = JobStart(job.run + 1,
                       [compaction |-> job.compaction, cutoff |-> job.cutoff,
                        read |-> job.all_submissions, kept |-> job.submissions_to_keep])
    /\ UNCHANGED <<file, now, intake, submits, saved, raced>>

JobNext ==
    \/ JobGenerate
    \/ JobSendEmail
    \/ JobCompactRead
    \/ JobCompactOpen
    \/ JobCompactClose
    \/ JobRestart

(************************** initial states *********************************)
RECURSIVE SeqsUpTo(_, _)
SeqsUpTo(S, n) ==
    IF n = 0 THEN {<<>>}
    ELSE LET shorter == SeqsUpTo(S, n - 1)
         IN  shorter \cup {Append(q, e) : q \in shorter, e \in S}

\* array elements a store may hold: records as submit_report writes them, at ten
\* days, at the window's length and at one day less before Now0 and at Now0, and
\* elements that are not such records
Pool ==
    { SubmissionRecord(FormAl, "none", Now0 - 10),
      SubmissionRecord(FormBo, "fails", Now0 - Window),
      SubmissionRecord(FormCy, "uploads", Now0 - Window + 1),
      [timestamp |-> JStr(Isoformat(Now0)), otherPest |-> ""],
      [timestamp |-> JStr("garbage"), yourName |-> "Al"],
      [yourName |-> "Al"],
      [timestamp |-> JStr(Isoformat(Now0)), pests |-> <<JNum(7)>>],
      [timestamp |-> JNum(5)],
      [nonobject |-> JNum(5)] }

JobFiles ==
    {Absent, Invalid, JsonNum, JsonEmptyObj} \cup {JsonList(q) : q \in SeqsUpTo(Pool, MaxLen)}

SharedFiles ==
    { Absent, JsonList(<<>>),
      JsonList(<<SubmissionRecord(FormAl, "none", Now0 - 10),
                 SubmissionRecord(FormCy, "uploads", Now0 - Window + 1)>>) }

InitRest ==
    /\ now = Now0
    /\ intake = IntakeIdle("", 0)
    /\ job = JobStart(1, NoRun)
    /\ submits = 0
    /\ saved = <<>>
    /\ raced = FALSE

\* intake and the report job run side by side on one file
Init == file \in SharedFiles /\ InitRest

JobRun ==
    \/ JobGenerate
    \/ JobSendEmail
    \/ JobCompactRead
    \/ JobCompactOpen
    \/ JobCompactClose

Next == IntakeNext \/ JobRun \/ Tick

Spec == Init /\ [][Next]_vars

\* the report job alone, on every store content up to MaxLen elements
InitJob == file \in JobFiles /\ InitRest

NextJob == JobNext \/ Tick

SpecJob == InitJob /\ [][NextJob]_vars

\* submit_report alone, one request after the other, from an absent or empty store
InitSeq == file \in {Absent, JsonList(<<>>)} /\ InitRest

NextSeq == IntakeNext \/ Tick

SpecSeq == InitSeq /\ [][NextSeq]_vars

(***************************** properties **********************************)
\* an array element whose timestamp parses
Parses(e) ==
    IsObject(e) /\ "timestamp" \in DOMAIN e /\ Fromisoformat(e.timestamp).exc = "none"

TsOf(e) == Fromisoformat(e.timestamp).t

\* an array element that is a record: an object whose timestamp, when present, is a
\* string and whose pests are strings
IsRecord(e) ==
    /\ IsObject(e)
    /\ "timestamp" \in DOMAIN e => IsStr(e.timestamp)
    /\ AllStr(Get(e, "pests", NoPests))

AllRecords(f) == f.kind = "list" /\ \A i \in 1 .. Len(f.recs) : IsRecord(f.recs[i])

AllParse(f) == f.kind = "list" /\ \A i \in 1 .. Len(f.recs) : Parses(f.recs[i])

\* the positions of the elements at or after the cutoff
Recent(recs, cutoff) == {i \in 1 .. Len(recs) : Parses(recs[i]) /\ TsOf(recs[i]) >= cutoff}

\* the j-th smallest member of a set of positions
Nth(S, j) == CHOOSE i \in S : Cardinality({k \in S : k < i}) = j - 1

\* the subsequence of the elements at or after the cutoff
RecentSeq(recs, cutoff) ==
    [j \in 1 .. Cardinality(Recent(recs, cutoff)) |-> recs[Nth(Recent(recs, cutoff), j)]]

HasLine(block, line) == \E k \in 1 .. Len(block.lines) : block.lines[k] = line

HasLabel(block, label) == \E k \in 1 .. Len(block.lines) : block.lines[k].label = label

Count(q, r) == Cardinality({i \in 1 .. Len(q) : q[i] = r})

\* generate_weekly_report has returned in this run of the job
Generated == job.pc \notin {"generate", "crashed"}

Blocks == job.report_content.blocks

\* C1: from an absent or empty store, with submit_report the only writer, every
\* save_submission succeeds and the store holds exactly the records saved so far, in
\* the order they were submitted
C1_SequentialAppend ==
    /\ intake.response # MsgSaveError
    /\ file.kind = "list" => file.recs = saved
    /\ file.kind # "list" => saved = <<>>

C1_Witness ==
    /\ Len(saved) >= 2
    /\ saved[1] # saved[2]
    /\ file.recs = saved
    /\ intake.pc = "idle"

\* C2: for a store that is a list of records, the report has one block per record
\* whose timestamp parses and is >= now - 7 days and no other block, in store order,
\* numbered 1..k, and no record with an unparseable timestamp makes it raise
C2_ReportBlocks ==
    job.pc # "generate" /\ AllRecords(job.submissions) =>
        LET shown == RecentSeq(job.submissions.recs, job.seven_days_ago)
        IN  /\ job.pc # "crashed"
            /\ Len(Blocks) = Len(shown)
            /\ \A j \in 1 .. Len(Blocks) :
                  /\ Blocks[j].number = j
                  /\ HasLine(Blocks[j], Line("Name", Get(shown[j], "yourName", "N/A")))
                  /\ HasLine(Blocks[j], Line("Submitted On", Strftime(TsOf(shown[j]))))

\* a store of three records, the middle one with an unparseable timestamp, the first
\* on the window's boundary: two blocks
C2_Witness ==
    /\ Generated
    /\ AllRecords(job.submissions)
    /\ Len(job.submissions.recs) = 3
    /\ "timestamp" \in DOMAIN job.submissions.recs[2]
    /\ ~Parses(job.submissions.recs[2])
    /\ Parses(job.submissions.recs[1])
    /\ TsOf(job.submissions.recs[1]) = job.seven_days_ago
    /\ Len(Blocks) = 2
    /\ Blocks[2].number = 2

\* C3: when every record of the store has a parseable timestamp, compaction rewrites
\* the store to the subsequence of the records with timestamp >= now - 7 days, and a
\* second compaction with the same cutoff leaves the result of the first
C3_CompactionKeepsWindow ==
    job.pc = "done" /\ AllParse(job.all_submissions) =>
        /\ job.compaction = "rewritten"
        /\ file = JsonList(RecentSeq(job.all_submissions.recs, job.cutoff))
        /\ (job.prev.compaction = "rewritten" /\ AllParse(job.prev.read)
               /\ job.prev.cutoff = job.cutoff)
              => file = JsonList(job.prev.kept)

\* the second of two compactions with one cutoff, the first of which removed a record
\* and kept another
C3_Witness ==
    /\ job.pc = "done"
    /\ AllParse(job.all_submissions)
    /\ job.compaction = "rewritten"
    /\ job.prev.compaction = "rewritten"
    /\ AllParse(job.prev.read)
    /\ job.prev.cutoff = job.cutoff
    /\ Len(job.prev.read.recs) > Len(job.prev.kept)
    /\ Len(job.prev.kept) > 0
    /\ file = JsonList(job.prev.kept)

\* C4: compaction of a list of records with string timestamps, parseable or not,
\* completes and rewrites the store to the records whose timestamp parses and is
\* >= now - 7 days
C4_UnparseableDropped ==
    (/\ job.pc = "done"
     /\ AllRecords(job.all_submissions)
     /\ \A i \in 1 .. Len(job.all_submissions.recs) :
           "timestamp" \in DOMAIN job.all_submissions.recs[i])
        => /\ job.compaction = "rewritten"
           /\ file = JsonList(RecentSeq(job.all_submissions.recs, job.cutoff))

\* a saved record inside the window is in the store
SavedInStore ==
    \A i \in 1 .. Len(saved) :
        TsOf(saved[i]) >= now - Window => Count(file.recs, saved[i]) >= Count(saved, saved[i])

\* C5 as stated: whatever the interleaving, outside the moment of compaction's own
\* rewrite, every record reported as saved and not older than now - 7 days is in the store
C5_SavedNeverLost == job.pc # "compact_close" => SavedInStore

\* C5: the same, provided no save_submission rewrite landed between compaction's
\* re-read and its overwrite
C5_SavedSurvivesUnlessRaced == (job.pc # "compact_close" /\ ~raced) => SavedInStore

\* compaction removed an old record and kept a record that was appended after the
\* report had been generated
C5_Witness ==
    /\ job.pc = "done"
    /\ job.compaction = "rewritten"
    /\ ~raced
    /\ Len(saved) >= 1
    /\ job.submissions.kind = "list"
    /\ Count(job.submissions.recs, saved[1]) = 0
    /\ Count(job.all_submissions.recs, saved[1]) = 1
    /\ Len(job.submissions_to_keep) < Len(job.all_submissions.recs)
    /\ Count(file.recs, saved[1]) = 1

C6_State ==
    /\ intake.pc = "email" =>
          Len(saved) >= 1 /\ saved[Len(saved)] = intake.record
    /\ intake.response = MsgSaveError => ~intake.emailed
    /\ intake.response = MsgEmailFailed => intake.emailed /\ Len(saved) >= 1
    /\ intake.response = MsgOk => intake.emailed /\ Len(saved) >= 1
    /\ job.sent # "none" => job.pc \in {"compact", "compact_open", "compact_close", "done"}
    /\ job.pc = "done" => job.compaction # "none" /\ job.sent # "none"

C6_EmailStep ==
    /\ (intake.pc = "email" /\ intake'.pc # "email") =>
          /\ saved' = saved
          /\ intake'.response \in {MsgOk, MsgEmailFailed}
          /\ intake'.status = IF intake'.response = MsgOk THEN 200 ELSE 500
          /\ job' = job => file' = file
    /\ (job.pc = "email" /\ job'.pc # "email") =>
          /\ job'.sent \in {"ok", "failed"}
          /\ job'.pc = "compact"
          /\ intake' = intake => file' = file

\* C6: submit_report attempts the email only after save_submission returned True, the
\* email step leaves the store as it is, a failed email answers with the "email
\* failed" message and not the success message, a failed save attempts no email, and
\* the report job goes on to the clearing block after either outcome of send_email
C6_EmailNeverBlocks == [](C6_State) /\ [][C6_EmailStep]_vars

\* both emails failed: the record is saved and the store was compacted
C6_Witness ==
    /\ intake.response = MsgEmailFailed
    /\ intake.pc = "idle"
    /\ Len(saved) = 1
    /\ job.sent = "failed"
    /\ job.pc = "done"
    /\ job.compaction = "rewritten"
    /\ Count(file.recs, saved[1]) = 1

\* C7 as stated: "no data" for an absent file and for an empty array; "no new
\* reports" only for a non-empty store with no record inside the window
C7_NoDataWhenEmpty ==
    Generated =>
        /\ (job.submissions.kind = "absent" \/ job.submissions = JsonList(<<>>))
              => job.report_content = Message(MsgNoData)
        /\ job.report_content = Message(MsgNoNew) =>
              /\ job.submissions.kind = "list"
              /\ Len(job.submissions.recs) > 0
              /\ Recent(job.submissions.recs, job.seven_days_ago) = {}

\* C7: "no data" exactly when the file is absent; an empty array gives "no new
\* reports", which is returned only when the file holds a JSON array or object with
\* no record inside the window
C7_NoDataOnlyWhenAbsent ==
    Generated =>
        /\ job.report_content = Message(MsgNoData) <=> job.submissions.kind = "absent"
        /\ job.submissions = JsonList(<<>>) => job.report_content = Message(MsgNoNew)
        /\ job.report_content = Message(MsgNoNew) =>
              /\ job.submissions.kind \in {"list", "emptyobj"}
              /\ Recent(job.submissions.recs, job.seven_days_ago) = {}

C7_Witness ==
    /\ Generated
    /\ job.submissions = JsonList(<<>>)
    /\ job.report_content = Message(MsgNoNew)

\* C8 as stated: a block has an "Other Pest" line iff the record's otherPest is
\* neither empty nor "N/A", and the line carries the value
C8_OtherPestNotPlaceholder ==
    Generated =>
        /\ Len(Blocks) = Len(job.recent_submissions)
        /\ \A j \in 1 .. Len(Blocks) :
              LET value == Get(job.recent_submissions[j], "otherPest", "")
              IN  /\ HasLabel(Blocks[j], "Other Pest") <=> value \notin {"", "N/A"}
                  /\ HasLabel(Blocks[j], "Other Pest")
                        => HasLine(Blocks[j], Line("Other Pest", value))

\* C8: a block has an "Other Pest" line iff the record's otherPest is present and
\* not empty, "N/A" included, and the line carries the value
C8_OtherPestNonEmpty ==
    Generated =>
        /\ Len(Blocks) = Len(job.recent_submissions)
        /\ \A j \in 1 .. Len(Blocks) :
              LET value == Get(job.recent_submissions[j], "otherPest", "")
              IN  /\ HasLabel(Blocks[j], "Other Pest") <=> value # ""
                  /\ HasLabel(Blocks[j], "Other Pest")
                        => HasLine(Blocks[j], Line("Other Pest", value))

\* one report with a block for "N/A", one for "wasps" and one without the line
C8_Witness ==
    /\ Generated
    /\ Len(Blocks) = 3
    /\ HasLine(Blocks[1], Line("Other Pest", "N/A"))
    /\ HasLine(Blocks[2], Line("Other Pest", "wasps"))
    /\ "otherPest" \in DOMAIN job.recent_submissions[3]
    /\ ~HasLabel(Blocks[3], "Other Pest")

\* C9: the block of a record that submit_report stored shows the record's image
\* reference on a line labelled "Image URL"
C9_ImageUrlShown ==
    Generated =>
        \A j \in 1 .. Len(Blocks) :
            "image_url" \in DOMAIN job.recent_submissions[j]
               => HasLine(Blocks[j], Line("Image URL", job.recent_submissions[j].image_url))

\* C10: for every content of the store generate_weekly_report returns a text, and
\* the job goes on to send_email with that text as the body
C10_GenerateNeverRaises ==
    /\ job.pc # "crashed"
    /\ job.sent # "none" => job.mail_body = job.report_content

====
